---- MODULE Spec2Model ----
(***************************************************************************)
(* A model of paramak's two reactor assemblies,                            *)
(*   src/src/paramak/assemblies/spherical_tokamak.py                       *)
(*   src/src/paramak/assemblies/tokamak.py                                 *)
(* A run is one call of one of the four constructors.  Lengths are exact   *)
(* rationals <<n, d>>; a build entry is <<LayerType, thickness>>;          *)
(* sequences are indexed as Python indexes them (0-based, negative         *)
(* indices counted from the end) through PyAt / PySlice.                   *)
(* Solids are terms: what was built and which cutters were subtracted,     *)
(* in order.  Kernel calls the assemblies make themselves (cut, union,     *)
(* intersect) are appended to kernel_calls in the order they are issued.   *)
(***************************************************************************)
EXTENDS Integers, Sequences, FiniteSets, TLC

\* ---------------------------------------------------------------- bounds
MaxLen == 4        \* longest radial build drawn
MaxShapeLen == 3   \* longest radial build drawn together with extra shapes
MaxThick == 2      \* largest thickness drawn for an entry
MaxCut == 2        \* most extra_cut_shapes entries
MaxInt == 2        \* most extra_intersect_shapes entries
MaxParts == 2      \* most connected solids the kernel returns for a cut layer
MaxLongLen == 6    \* longest radial build drawn with position-valued thicknesses

GAP == "GAP"
SOLID == "SOLID"
PLASMA == "PLASMA"

\* ------------------------------------------------------------- rationals
RECURSIVE Gcd(_, _)
Gcd(a, b) == IF b = 0 THEN a ELSE Gcd(b, a % b)

Abs(x) == IF x < 0 THEN -x ELSE x

Norm(n, d) ==
    LET g == Gcd(Abs(n), Abs(d))
        s == IF d < 0 THEN -1 ELSE 1
    IN  <<(s * n) \div g, (s * d) \div g>>

Q(n) == <<n, 1>>
QAdd(x, y) == Norm(x[1] * y[2] + y[1] * x[2], x[2] * y[2])
QSub(x, y) == Norm(x[1] * y[2] - y[1] * x[2], x[2] * y[2])
QMul(x, y) == Norm(x[1] * y[1], x[2] * y[2])
\* x / y, for y # 0 (the callers raise ZeroDivisionError otherwise)
QDiv(x, y) == Norm(x[1] * y[2], x[2] * y[1])

\* ------------------------------------------------------ Python sequences
\* seq[i] raises IndexError unless -len <= i < len
PyInRange(seq, i) == i >= -Len(seq) /\ i < Len(seq)
PyAt(seq, i) == IF i >= 0 THEN seq[i + 1] ELSE seq[Len(seq) + i + 1]

\* the bounds of seq[a:b] as Python clamps them
PyClamp(seq, i) ==
    IF i < 0 THEN (IF Len(seq) + i < 0 THEN 0 ELSE Len(seq) + i)
    ELSE IF i > Len(seq) THEN Len(seq) ELSE i

PySlice(seq, a, b) ==
    LET lo == PyClamp(seq, a)
        hi == PyClamp(seq, b)
    IN  IF lo >= hi THEN <<>> ELSE SubSeq(seq, lo + 1, hi)

\* seq[::-1]
Reverse(seq) == [j \in 1..Len(seq) |-> seq[Len(seq) + 1 - j]]

RECURSIVE SumThickness(_)
SumThickness(build) ==
    IF build = <<>> THEN Q(0)
    ELSE QAdd(build[1][2], SumThickness(Tail(build)))

\* ------------------------------------------------------------ paramak.utils
\* index (0-based) of the PLASMA entry
get_plasma_index(build) ==
    (CHOOSE j \in 1..Len(build) : build[j][1] = PLASMA) - 1

get_plasma_value(build) == build[get_plasma_index(build) + 1][2]

sum_up_to_plasma(build) == SumThickness(SubSeq(build, 1, get_plasma_index(build)))

\* (before, after): the thickness on each side of the plasma
sum_before_after_plasma(build) ==
    <<SumThickness(SubSeq(build, 1, get_plasma_index(build))),
      SumThickness(SubSeq(build, get_plasma_index(build) + 2, Len(build)))>>

\* -------------------------------------------------------------- solids
\* center_column_shield_cylinder(inner_radius, thickness, name, height, ...)
Cylinder(inner_radius, thickness, layer_count, height, reference_point, entry) ==
    [kind |-> "cylinder", name |-> <<"layer", layer_count>>,
     inner_radius |-> inner_radius, thickness |-> <<thickness>>,
     offset_from_plasma |-> <<>>, height |-> height,
     reference_point |-> reference_point, entry |-> entry]

\* blanket_from_plasma(thickness=[..], offset_from_plasma=[..], name, ...)
Blanket(thickness, offset_from_plasma, index, entry) ==
    [kind |-> "blanket", name |-> <<"layer", index>>,
     inner_radius |-> Q(0), thickness |-> thickness,
     offset_from_plasma |-> offset_from_plasma, height |-> Q(0),
     reference_point |-> <<>>, entry |-> entry]

\* ------------------------------------------- spherical_tokamak.py builders
\* the loop below with a GAP left out of the running total_sum
RECURSIVE SphCylinderLoop_GapSkipped(_, _, _, _, _, _, _)
SphCylinderLoop_GapSkipped(radial_build, height, before, index, total_sum, layer_count, cylinders) ==
    IF index >= Len(radial_build) THEN cylinders
    ELSE LET item == PyAt(radial_build, index)
         IN  IF item[1] = PLASMA THEN cylinders
             ELSE IF item[1] = GAP /\ PyAt(radial_build, index + 1)[1] = PLASMA
                  THEN cylinders
             ELSE IF item[1] = GAP
                  THEN SphCylinderLoop_GapSkipped(radial_build, height, before, index + 1,
                                                  total_sum, layer_count, cylinders)
             ELSE SphCylinderLoop_GapSkipped(radial_build, height, before, index + 1,
                                             QAdd(total_sum, item[2]), layer_count + 1,
                                             Append(cylinders,
                                                    Cylinder(total_sum, item[2],
                                                             layer_count + 1, height,
                                                             <<"lower", QSub(Q(0), before)>>,
                                                             index)))

\* create_center_column_shield_cylinders: the loop from position index
\* (0-based) with the running total_sum and layer_count
RECURSIVE SphCylinderLoop(_, _, _, _, _, _, _)
SphCylinderLoop(radial_build, height, before, index, total_sum, layer_count, cylinders) ==
    IF index >= Len(radial_build) THEN cylinders
    ELSE LET item == PyAt(radial_build, index)
         IN  IF item[1] = PLASMA THEN cylinders
             ELSE IF item[1] = GAP /\ PyAt(radial_build, index + 1)[1] = PLASMA
                  THEN cylinders
             ELSE IF item[1] = GAP
                  THEN SphCylinderLoop(radial_build, height, before, index + 1,
                                       QAdd(total_sum, item[2]), layer_count, cylinders)
             ELSE SphCylinderLoop(radial_build, height, before, index + 1,
                                  QAdd(total_sum, item[2]), layer_count + 1,
                                  Append(cylinders,
                                         Cylinder(total_sum, item[2], layer_count + 1,
                                                  height,
                                                  <<"lower", QSub(Q(0), before)>>,
                                                  index)))

SphCylinders(radial_build, vertical_build) ==
    SphCylinderLoop(radial_build, SumThickness(vertical_build),
                    sum_before_after_plasma(vertical_build)[1], 0, Q(0), 0, <<>>)

\* create_blanket_layers_after_plasma: the loop from i with the three running
\* totals cum = <<lvb, rb, uvb>>, pr and pv being the two plasma indexes; the
\* result is [err, layers]
RECURSIVE SphBlanketLoop(_, _, _, _, _, _, _)
SphBlanketLoop(radial_build, vertical_build, pr, pv, i, cum, layers) ==
    IF pr + 1 + i >= Len(radial_build) THEN [err |-> "none", layers |-> layers]
    ELSE IF ~PyInRange(vertical_build, pv + 1 + i)
            \/ ~PyInRange(vertical_build, pv - 1 - i)
         THEN [err |-> "IndexError", layers |-> layers]
    ELSE LET item == PyAt(radial_build, pr + 1 + i)
             upper == PyAt(vertical_build, pv + 1 + i)[2]
             lower == PyAt(vertical_build, pv - 1 - i)[2]
             next == <<QAdd(cum[1], lower), QAdd(cum[2], item[2]),
                       QAdd(cum[3], upper)>>
         IN  IF item[1] = GAP
             THEN SphBlanketLoop(radial_build, vertical_build, pr, pv, i + 1, next,
                                 layers)
             ELSE SphBlanketLoop(radial_build, vertical_build, pr, pv, i + 1, next,
                      Append(layers,
                             Blanket(<<lower, item[2], upper>>, cum,
                                     pr + i + 1, pr + 1 + i)))

SphBlanketLayers(radial_build, vertical_build) ==
    SphBlanketLoop(radial_build, vertical_build, get_plasma_index(radial_build),
                   get_plasma_index(vertical_build), 0, <<Q(0), Q(0), Q(0)>>, <<>>)

\* ----------------------------------------------------- tokamak.py builders
\* count_cylinder_layers: the loop over the build from position j (1-based)
RECURSIVE CountLoop(_, _, _, _, _)
CountLoop(radial_build, j, before_plasma, after_plasma, found_plasma) ==
    IF j > Len(radial_build) THEN before_plasma - after_plasma
    ELSE IF radial_build[j][1] = PLASMA
         THEN CountLoop(radial_build, j + 1, before_plasma, after_plasma, TRUE)
    ELSE IF radial_build[j][1] = SOLID
         THEN IF ~found_plasma
              THEN CountLoop(radial_build, j + 1, before_plasma + 1, after_plasma,
                             found_plasma)
              ELSE CountLoop(radial_build, j + 1, before_plasma, after_plasma + 1,
                             found_plasma)
    ELSE CountLoop(radial_build, j + 1, before_plasma, after_plasma, found_plasma)

\* the SOLID entries before the plasma, with those after it not subtracted
count_cylinder_layers_AfterIgnored(radial_build) ==
    Cardinality({j \in 1..Len(radial_build) :
                    /\ radial_build[j][1] = SOLID
                    /\ \A x \in 1..j : radial_build[x][1] # PLASMA})

count_cylinder_layers(radial_build) == CountLoop(radial_build, 1, 0, 0, FALSE)

\* the loop below without the break at number_of_cylinder_layers: a cylinder
\* for every SOLID entry before the plasma
RECURSIVE TokCylinderLoop_NoLimit(_, _, _, _, _, _, _)
TokCylinderLoop_NoLimit(radial_build, height, n, index, total_sum, layer_count, cylinders) ==
    IF index >= Len(radial_build) THEN cylinders
    ELSE LET item == PyAt(radial_build, index)
         IN  IF item[1] = PLASMA THEN cylinders
             ELSE IF item[1] = GAP
                  THEN TokCylinderLoop_NoLimit(radial_build, height, n, index + 1,
                                               QAdd(total_sum, item[2]), layer_count,
                                               cylinders)
             ELSE TokCylinderLoop_NoLimit(radial_build, height, n, index + 1,
                                          QAdd(total_sum, item[2]), layer_count + 1,
                                          Append(cylinders,
                                                 Cylinder(total_sum, item[2],
                                                          layer_count + 1, height, <<>>,
                                                          index)))

\* create_center_column_shield_cylinders: the loop from position index
\* (0-based), n being number_of_cylinder_layers
RECURSIVE TokCylinderLoop(_, _, _, _, _, _, _)
TokCylinderLoop(radial_build, height, n, index, total_sum, layer_count, cylinders) ==
    IF index >= Len(radial_build) THEN cylinders
    ELSE LET item == PyAt(radial_build, index)
         IN  IF item[1] = PLASMA THEN cylinders
             ELSE IF item[1] = GAP
                  THEN TokCylinderLoop(radial_build, height, n, index + 1,
                                       QAdd(total_sum, item[2]), layer_count, cylinders)
             ELSE IF layer_count + 1 > n
                  THEN cylinders
             ELSE TokCylinderLoop(radial_build, height, n, index + 1,
                                  QAdd(total_sum, item[2]), layer_count + 1,
                                  Append(cylinders,
                                         Cylinder(total_sum, item[2], layer_count + 1,
                                                  height, <<>>, index)))

TokCylinders(radial_build, center_column_shield_height) ==
    TokCylinderLoop(radial_build, center_column_shield_height,
                    count_cylinder_layers(radial_build), 0, Q(0), 0, <<>>)

\* outer_layer.union(inner_layer)
LoftedUnion(outer_layer, inner_layer, index_delta) ==
    [kind |-> "union", name |-> <<"layer", index_delta>>,
     outer |-> outer_layer, inner |-> inner_layer]

\* create_layers_from_plasma: the loop from index_delta with the running
\* totals cum = <<orb, irb, uvb, lvb>>, pr and pv being the two plasma indexes;
\* the result is [err, layers]
RECURSIVE TokLayerLoop(_, _, _, _, _, _, _)
TokLayerLoop(radial_build, vertical_build, pr, pv, index_delta, cum, layers) ==
    IF index_delta >= Len(radial_build) - pr
    THEN [err |-> "none", layers |-> layers]
    ELSE IF PyAt(radial_build, pr + index_delta)[1] = PLASMA
         THEN TokLayerLoop(radial_build, vertical_build, pr, pv, index_delta + 1,
                           cum, layers)
    ELSE IF ~PyInRange(radial_build, pr - index_delta)
            \/ ~PyInRange(vertical_build, pv - index_delta)
            \/ ~PyInRange(vertical_build, pv + index_delta)
         THEN [err |-> "IndexError", layers |-> layers]
    ELSE LET outer == PyAt(radial_build, pr + index_delta)
             outer_t == outer[2]
             inner_t == PyAt(radial_build, pr - index_delta)[2]
             upper_t == PyAt(vertical_build, pv - index_delta)[2]
             lower_t == PyAt(vertical_build, pv + index_delta)[2]
             orb == cum[1]
             irb == cum[2]
             uvb == cum[3]
             lvb == cum[4]
             next == <<QAdd(orb, outer_t), QAdd(irb, inner_t),
                       QAdd(uvb, upper_t), QAdd(lvb, lower_t)>>
         IN  IF outer[1] # SOLID
             THEN TokLayerLoop(radial_build, vertical_build, pr, pv, index_delta + 1,
                               next, layers)
             ELSE TokLayerLoop(radial_build, vertical_build, pr, pv, index_delta + 1,
                      next,
                      Append(layers,
                          LoftedUnion(
                              Blanket(<<upper_t, outer_t, lower_t>>,
                                      <<uvb, orb, lvb>>, index_delta,
                                      pr + index_delta),
                              Blanket(<<lower_t, inner_t, upper_t>>,
                                      <<lvb, irb, uvb>>, index_delta,
                                      (pr - index_delta) % Len(radial_build)),
                              index_delta)))

TokLayers(radial_build, vertical_build) ==
    TokLayerLoop(radial_build, vertical_build, get_plasma_index(radial_build),
                 get_plasma_index(vertical_build), 0, <<Q(0), Q(0), Q(0), Q(0)>>, <<>>)

\* ------------------------------------------------- vertical-build synthesis
\* the synthesis below with the lower half left in radial order
SphVerticalBuild_LowerNotReversed(radial_build, plasma_height) ==
    LET pi == get_plasma_index(radial_build)
        upper_vertical_build == PySlice(radial_build, pi, Len(radial_build))
    IN  PySlice(upper_vertical_build, 1, Len(upper_vertical_build))
        \o <<<<PLASMA, plasma_height>>>>
        \o PySlice(upper_vertical_build, 1, Len(upper_vertical_build))

\* spherical_tokamak_from_plasma: the vertical build made from the outboard
\* radial build and the plasma height
SphVerticalBuild(radial_build, plasma_height) ==
    LET pi == get_plasma_index(radial_build)
        upper_vertical_build == PySlice(radial_build, pi, Len(radial_build))
    IN  PySlice(Reverse(upper_vertical_build), 0, -1)
        \o <<<<PLASMA, plasma_height>>>>
        \o PySlice(upper_vertical_build, 1, Len(upper_vertical_build))

\* tokamak_from_plasma: the vertical build made from the inboard radial build
TokVerticalBuild(radial_build, plasma_height) ==
    LET pi == get_plasma_index(radial_build)
        rbi == Len(radial_build) - 1 - pi
        upper_vertical_build == Reverse(PySlice(radial_build, pi - rbi, pi))
    IN  Reverse(upper_vertical_build)
        \o <<<<PLASMA, plasma_height>>>>
        \o upper_vertical_build

\* ------------------------------------------------------ equatorial geometry
inner_equatorial_point(radial_build) == sum_up_to_plasma(radial_build)

outer_equatorial_point(radial_build) ==
    QAdd(inner_equatorial_point(radial_build), get_plasma_value(radial_build))

\* the sum of the two equatorial points, not halved
major_radius_NotHalved(radial_build) ==
    QAdd(outer_equatorial_point(radial_build), inner_equatorial_point(radial_build))

major_radius(radial_build) ==
    QDiv(QAdd(outer_equatorial_point(radial_build),
              inner_equatorial_point(radial_build)), Q(2))

minor_radius(radial_build) ==
    QSub(major_radius(radial_build), inner_equatorial_point(radial_build))

\* minor_radius * elongation: the half height taken for the height
plasma_height_NotDoubled(radial_build, elongation) ==
    QMul(minor_radius(radial_build), elongation)

\* 2 * minor_radius * elongation
plasma_height(radial_build, elongation) ==
    QMul(QMul(Q(2), minor_radius(radial_build)), elongation)

\* (plasma_vertical_thickness / 2) / minor_radius, for minor_radius # 0
Elongation(radial_build, vertical_build) ==
    QDiv(QDiv(get_plasma_value(vertical_build), Q(2)), minor_radius(radial_build))

\* ------------------------------------------------------------------ state
VARIABLES
    args,                   \* the call: constructor and its arguments
    vertical_build,         \* given (direct constructors) or synthesized
    pc,                     \* position in the constructor
    err,                    \* the exception raised, type "none" while running
    geom,                   \* major_radius, minor_radius, elongation
    inner_radial_build,     \* the center-column cylinders
    blanket_layers,         \* the lofted layers
    parts,                  \* my_assembly: <<[name, solid]>> in add order
    attrs,                  \* the scalars attached to my_assembly, <<>> before
    intersect_shapes_to_cut,
    reactor_compound,       \* layers unioned so far, in union order
    ci,                     \* extra_cut_shapes loop: entries handled
    k,                      \* extra_intersect_shapes loop: entries handled
    li,                     \* layer loop: layers handled
    entry,                  \* tokamak: `entry` as the cut loop leaves it
    kernel_calls            \* cut / union / intersect calls, in issue order

vars == <<args, vertical_build, pc, err, geom, inner_radial_build, blanket_layers,
          parts, attrs, intersect_shapes_to_cut, reactor_compound, ci, k, li,
          entry, kernel_calls>>

EntryPoints == {"spherical_tokamak_from_plasma", "spherical_tokamak",
                "tokamak_from_plasma", "tokamak"}

FromPlasmaEntry(e) == e \in {"spherical_tokamak_from_plasma", "tokamak_from_plasma"}
Spherical(e) == e \in {"spherical_tokamak_from_plasma", "spherical_tokamak"}

\* an exception: its class, what its message names (<<key, value>> pairs), and
\* where it was raised
NoError == [type |-> "none", about |-> <<>>, at |-> "none"]
Raise(type, about) == [type |-> type, about |-> about, at |-> pc]

\* the ordered layer list: inner_radial_build + blanket_layers
Layers == inner_radial_build \o blanket_layers

\* extra_cut_shapes + intersect_shapes_to_cut, as cutter references
CutShapeRefs == [j \in 1..Len(args.extra_cut_shapes) |-> <<"extra_cut_shape", j>>]
combined_cutters == CutShapeRefs \o intersect_shapes_to_cut

Solid(base, cuts, part) == [base |-> base, cuts |-> cuts, part |-> part]
Part(name, solid) == [name |-> name, solid |-> solid]
Call(op, on, with) == [op |-> op, on |-> on, with |-> with]

\* ------------------------------------------------------------------ inputs
Entries == {<<t, Q(n)>> : t \in {GAP, SOLID, PLASMA}, n \in 1..MaxThick}

OnePlasma(build) == Cardinality({j \in 1..Len(build) : build[j][1] = PLASMA}) = 1

\* every build of at most MaxLen entries with exactly one PLASMA entry
Builds == UNION {{b \in [1..n -> Entries] : OnePlasma(b)} : n \in 1..MaxLen}

\* the builds of at most MaxShapeLen entries whose thicknesses are all 1
UnitBuilds ==
    {b \in Builds : Len(b) <= MaxShapeLen /\ \A j \in 1..Len(b) : b[j][2] = Q(1)}

\* the radial build of the examples and tests
ExampleRadialBuild ==
    <<<<GAP, Q(10)>>, <<SOLID, Q(50)>>, <<SOLID, Q(15)>>, <<GAP, Q(50)>>,
      <<PLASMA, Q(300)>>, <<GAP, Q(60)>>, <<SOLID, Q(15)>>, <<SOLID, Q(60)>>,
      <<SOLID, Q(10)>>>>

DefaultElongation == Q(2)
DefaultTriangularity == <<11, 20>>

\* the <<elongation, triangularity>> pairs a from-plasma call is made with
PlasmaShapes == {<<DefaultElongation, DefaultTriangularity>>, <<<<3, 2>>, <<3, 10>>>>}

\* the sequences of at most n entries over S
SeqsUpTo(S, n) == UNION {[1..m -> S] : m \in 0..n}

\* the vertical build a caller of a direct constructor pairs with radial_build:
\* aligned entry by entry, with a plasma of vertical thickness h
VerticalBuildFor(e, radial_build, h) ==
    IF Spherical(e) THEN SphVerticalBuild(radial_build, Q(h))
                    ELSE TokVerticalBuild(radial_build, Q(h))

Call0(e, rb, el, tri, cuts, ints) ==
    [entry_point |-> e, radial_build |-> rb, elongation |-> el,
     triangularity |-> tri, extra_cut_shapes |-> cuts,
     extra_intersect_shapes |-> ints]

InitCall(a, vb) ==
    /\ args = a
    /\ vertical_build = vb
    /\ pc = IF FromPlasmaEntry(a.entry_point) THEN "from_plasma" ELSE "build"
    /\ err = NoError
    /\ geom = <<>>
    /\ inner_radial_build = <<>>
    /\ blanket_layers = <<>>
    /\ parts = <<>>
    /\ attrs = <<>>
    /\ intersect_shapes_to_cut = <<>>
    /\ reactor_compound = <<>>
    /\ ci = 0
    /\ k = 0
    /\ li = 0
    /\ entry = <<>>
    /\ kernel_calls = <<>>

\* calls with the default (empty) cut and intersect shapes, over every build
InitBuilds ==
    \E e \in EntryPoints, rb \in Builds \cup {ExampleRadialBuild} :
        IF FromPlasmaEntry(e)
        THEN \E sh \in PlasmaShapes :
                 InitCall(Call0(e, rb, sh[1], sh[2], <<>>, <<>>), <<>>)
        ELSE InitCall(Call0(e, rb, Q(0), DefaultTriangularity, <<>>, <<>>),
                      VerticalBuildFor(e, rb, MaxThick))

\* calls with every combination of cut and intersect shapes, over unit builds
InitShapes ==
    \E e \in EntryPoints, rb \in UnitBuilds,
       cuts \in SeqsUpTo({"Workplane", "int"}, MaxCut), n \in 0..MaxInt :
        LET ints == [j \in 1..n |-> "Workplane"]
        IN  IF FromPlasmaEntry(e)
            THEN InitCall(Call0(e, rb, DefaultElongation, DefaultTriangularity,
                                cuts, ints), <<>>)
            ELSE InitCall(Call0(e, rb, Q(0), DefaultTriangularity, cuts, ints),
                          VerticalBuildFor(e, rb, MaxThick))

\* every build of at most MaxLongLen entries with exactly one PLASMA entry in
\* which the entry at position j has thickness j
PositionBuilds ==
    UNION {{[j \in 1..n |-> <<t[j], Q(j)>>] :
                t \in {u \in [1..n -> {GAP, SOLID, PLASMA}] :
                          Cardinality({j \in 1..n : u[j] = PLASMA}) = 1}}
              : n \in 1..MaxLongLen}

\* a vertical build a caller pairs with radial_build that is not symmetric: as
\* many entries on each side of the plasma as radial_build has after it, with
\* the types of those entries, each one unit thicker above than below
SkewedVerticalBuild(radial_build) ==
    LET p == get_plasma_index(radial_build) + 1
        m == Len(radial_build) - p
    IN  [j \in 1..(2 * m + 1) |->
            IF j <= m THEN radial_build[p + (m + 1 - j)]
            ELSE IF j = m + 1 THEN <<PLASMA, Q(MaxThick)>>
            ELSE <<radial_build[p + (j - m - 1)][1],
                   QAdd(radial_build[p + (j - m - 1)][2], Q(1))>>]

\* calls with no extra shapes over the position-valued builds; a direct
\* constructor is given the vertical build of its policy or the skewed one
InitLong ==
    \E e \in EntryPoints, rb \in PositionBuilds :
        IF FromPlasmaEntry(e)
        THEN InitCall(Call0(e, rb, DefaultElongation, DefaultTriangularity,
                            <<>>, <<>>), <<>>)
        ELSE \E vb \in {VerticalBuildFor(e, rb, MaxThick), SkewedVerticalBuild(rb)} :
                 InitCall(Call0(e, rb, Q(0), DefaultTriangularity, <<>>, <<>>), vb)

Init == InitBuilds \/ InitShapes \/ InitLong

\* ----------------------------------------------------------------- actions
\* where the constructor goes once the extra_cut_shapes loop is over
\* (n is the number of layers built)
AfterCutShapes(n) ==
    IF Len(args.extra_intersect_shapes) > 0 THEN "compound"
    ELSE IF ~Spherical(args.entry_point) THEN "return"
    ELSE IF n > 0 THEN "layers"
    ELSE "plasma"

AfterBuild(n) ==
    IF Len(args.extra_cut_shapes) > 0 THEN "cut_shapes" ELSE AfterCutShapes(n)

Fail(e) ==
    /\ pc' = "error"
    /\ err' = e

\* spherical_tokamak_from_plasma / tokamak_from_plasma: synthesize the
\* vertical build and call the direct constructor
FromPlasma ==
    /\ pc = "from_plasma"
    /\ vertical_build' =
         IF Spherical(args.entry_point)
         THEN SphVerticalBuild(args.radial_build,
                               plasma_height(args.radial_build, args.elongation))
         ELSE TokVerticalBuild(args.radial_build,
                               plasma_height(args.radial_build, args.elongation))
    /\ pc' = "build"
    /\ UNCHANGED <<args, err, geom, inner_radial_build, blanket_layers, parts, attrs,
                   intersect_shapes_to_cut, reactor_compound, ci, k, li, entry,
                   kernel_calls>>

Geometry ==
    [major_radius |-> major_radius(args.radial_build),
     minor_radius |-> minor_radius(args.radial_build),
     elongation |-> Elongation(args.radial_build, vertical_build)]

\* layer.cut(center_column), once per lofted layer, in build order
SphBuilderCalls(layers) ==
    [j \in 1..Len(layers) |->
        Call("cut", <<"blanket", layers[j].name[2]>>, <<"blanket_cutting_cylinder">>)]

\* outer_layer.union(inner_layer), once per lofted layer, in build order
TokBuilderCalls(layers) ==
    [j \in 1..Len(layers) |->
        Call("union", <<"outer_layer", layers[j].name[2]>>,
                      <<"inner_layer", layers[j].name[2]>>)]

\* spherical_tokamak, from its first line to my_assembly = Assembly()
SphBuild ==
    /\ pc = "build"
    /\ Spherical(args.entry_point)
    /\ LET cylinders == SphCylinders(args.radial_build, vertical_build)
           built == SphBlanketLayers(args.radial_build, vertical_build)
       IN  IF minor_radius(args.radial_build) = Q(0)
           THEN /\ Fail(Raise("ZeroDivisionError", <<>>))
                /\ UNCHANGED <<geom, inner_radial_build, blanket_layers, kernel_calls>>
           ELSE IF built.err # "none"
           THEN /\ Fail(Raise(built.err, <<>>))
                /\ geom' = Geometry
                /\ inner_radial_build' = cylinders
                /\ kernel_calls' = kernel_calls \o SphBuilderCalls(built.layers)
                /\ UNCHANGED blanket_layers
           ELSE /\ geom' = Geometry
                /\ inner_radial_build' = cylinders
                /\ blanket_layers' = built.layers
                /\ kernel_calls' = kernel_calls \o SphBuilderCalls(built.layers)
                /\ pc' = AfterBuild(Len(cylinders) + Len(built.layers))
                /\ UNCHANGED err
    /\ UNCHANGED <<args, vertical_build, parts, attrs, intersect_shapes_to_cut,
                   reactor_compound, ci, k, li, entry>>

\* tokamak, from its first line to my_assembly = Assembly()
TokBuild ==
    /\ pc = "build"
    /\ ~Spherical(args.entry_point)
    /\ LET cylinders == TokCylinders(args.radial_build, SumThickness(vertical_build))
           built == TokLayers(args.radial_build, vertical_build)
       IN  IF minor_radius(args.radial_build) = Q(0)
           THEN /\ Fail(Raise("ZeroDivisionError", <<>>))
                /\ UNCHANGED <<geom, inner_radial_build, blanket_layers, kernel_calls>>
           ELSE IF cylinders = <<>>
           THEN \* center_column=inner_radial_build[0]
                /\ Fail(Raise("IndexError", <<>>))
                /\ geom' = Geometry
                /\ inner_radial_build' = cylinders
                /\ UNCHANGED <<blanket_layers, kernel_calls>>
           ELSE IF built.err # "none"
           THEN /\ Fail(Raise(built.err, <<>>))
                /\ geom' = Geometry
                /\ inner_radial_build' = cylinders
                /\ kernel_calls' = kernel_calls \o TokBuilderCalls(built.layers)
                /\ UNCHANGED blanket_layers
           ELSE /\ geom' = Geometry
                /\ inner_radial_build' = cylinders
                /\ blanket_layers' = built.layers
                /\ kernel_calls' = kernel_calls \o TokBuilderCalls(built.layers)
                /\ pc' = AfterBuild(Len(cylinders) + Len(built.layers))
                /\ UNCHANGED err
    /\ UNCHANGED <<args, vertical_build, parts, attrs, intersect_shapes_to_cut,
                   reactor_compound, ci, k, li, entry>>

\* one pass of the extra_cut_shapes loop: register the entry, or raise
RegisterCutShape ==
    /\ pc = "cut_shapes"
    /\ ci < Len(args.extra_cut_shapes)
    /\ IF args.extra_cut_shapes[ci + 1] = "Workplane"
       THEN /\ parts' = Append(parts, Part(<<"add_extra_cut_shape", ci + 1>>,
                                           Solid(<<"extra_cut_shape", ci + 1>>, <<>>, 0)))
            /\ ci' = ci + 1
            /\ pc' = IF ci + 1 = Len(args.extra_cut_shapes)
                     THEN AfterCutShapes(Len(Layers)) ELSE "cut_shapes"
            /\ UNCHANGED err
       ELSE \* the message names type(entry)
            /\ Fail(Raise("ValueError",
                          <<<<"type", args.extra_cut_shapes[ci + 1]>>>>))
            /\ UNCHANGED <<parts, ci>>
    /\ UNCHANGED <<args, vertical_build, geom, inner_radial_build, blanket_layers,
                   attrs, intersect_shapes_to_cut, reactor_compound, k, li, entry,
                   kernel_calls>>

\* reactor_compound = inner_radial_build[0], then .union(entry) for entry in
\* inner_radial_build[1:] + blanket_layers: the positions (1-based, in Layers)
\* of the layers in the compound, in union order
UnionOrder ==
    <<1>> \o [j \in 1..(Len(inner_radial_build) - 1) |-> j + 1]
          \o [j \in 1..Len(blanket_layers) |-> Len(inner_radial_build) + j]

UnionCalls ==
    LET rest == Tail(UnionOrder)
    IN  [j \in 1..Len(rest) |-> Call("union", <<"reactor_compound">>, <<"layer", rest[j]>>)]

\* entry.cut(cutter) for cutter in combined_cutters, for the layer at position j
CutCalls(j, cutters) ==
    [c \in 1..Len(cutters) |-> Call("cut", <<"layer", j>>, cutters[c])]

\* the parts registered for the layer at position j (1-based) once cut by
\* cutters, when entry.solids() yields n solids
LayerParts(j, cutters, n) ==
    IF n > 1
    THEN [c \in 1..n |-> Part(<<"layer", j, "part", c>>,
                              Solid(<<"layer", j>>, cutters, c))]
    ELSE <<Part(<<"layer", j>>, Solid(<<"layer", j>>, cutters, n))>>

\* spherical_tokamak: the reactor compound, when extra_intersect_shapes is given
SphBuildCompound ==
    /\ pc = "compound"
    /\ Spherical(args.entry_point)
    /\ IF inner_radial_build = <<>>
       THEN \* reactor_compound = inner_radial_build[0]
            /\ Fail(Raise("IndexError", <<>>))
            /\ UNCHANGED <<reactor_compound, kernel_calls>>
       ELSE /\ reactor_compound' = UnionOrder
            /\ kernel_calls' = kernel_calls \o UnionCalls
            /\ pc' = "intersect"
            /\ UNCHANGED err
    /\ UNCHANGED <<args, vertical_build, geom, inner_radial_build, blanket_layers,
                   parts, attrs, intersect_shapes_to_cut, ci, k, li, entry>>

\* spherical_tokamak: one pass of the extra_intersect_shapes loop
SphIntersect ==
    /\ pc = "intersect"
    /\ Spherical(args.entry_point)
    /\ k < Len(args.extra_intersect_shapes)
    /\ kernel_calls' = Append(kernel_calls,
                              Call("intersect", <<"extra_intersect_shape", k + 1>>,
                                   <<"reactor_compound">>))
    /\ intersect_shapes_to_cut' = Append(intersect_shapes_to_cut, <<"intersection", k + 1>>)
    /\ parts' = Append(parts, Part(<<"extra_intersect_shapes", k + 1>>,
                                   Solid(<<"intersection", k + 1>>, <<>>, 0)))
    /\ k' = k + 1
    /\ pc' = IF k + 1 = Len(args.extra_intersect_shapes) THEN "layers" ELSE "intersect"
    /\ UNCHANGED <<args, vertical_build, err, geom, inner_radial_build, blanket_layers,
                   attrs, reactor_compound, ci, li, entry>>

\* spherical_tokamak: one pass of the layer loop when there are cutters:
\* cut the layer by every cutter, then register its solids
SphCutLayer ==
    /\ pc = "layers"
    /\ Spherical(args.entry_point)
    /\ li < Len(Layers)
    /\ combined_cutters # <<>>
    /\ kernel_calls' = kernel_calls \o CutCalls(li + 1, combined_cutters)
    /\ \E n \in 0..MaxParts :
           parts' = parts \o LayerParts(li + 1, combined_cutters, n)
    /\ li' = li + 1
    /\ pc' = IF li + 1 = Len(Layers) THEN "plasma" ELSE "layers"
    /\ UNCHANGED <<args, vertical_build, err, geom, inner_radial_build, blanket_layers,
                   attrs, intersect_shapes_to_cut, reactor_compound, ci, k, entry>>

\* spherical_tokamak: one pass of the layer loop when there are no cutters
SphPlainLayer ==
    /\ pc = "layers"
    /\ Spherical(args.entry_point)
    /\ li < Len(Layers)
    /\ combined_cutters = <<>>
    /\ parts' = Append(parts, Part(<<"layer", li + 1>>, Solid(<<"layer", li + 1>>, <<>>, 0)))
    /\ li' = li + 1
    /\ pc' = IF li + 1 = Len(Layers) THEN "plasma" ELSE "layers"
    /\ UNCHANGED <<args, vertical_build, err, geom, inner_radial_build, blanket_layers,
                   attrs, intersect_shapes_to_cut, reactor_compound, ci, k, entry,
                   kernel_calls>>

\* the four scalars stored in the assembly
Attached ==
    [elongation |-> geom.elongation, triangularity |-> args.triangularity,
     major_radius |-> geom.major_radius, minor_radius |-> geom.minor_radius]

\* spherical_tokamak: add the plasma, store the parameters, return
SphReturn ==
    /\ pc = "plasma"
    /\ Spherical(args.entry_point)
    /\ parts' = Append(parts, Part(<<"plasma">>, Solid(<<"plasma">>, <<>>, 0)))
    /\ attrs' = Attached
    /\ pc' = "done"
    /\ UNCHANGED <<args, vertical_build, err, geom, inner_radial_build, blanket_layers,
                   intersect_shapes_to_cut, reactor_compound, ci, k, li, entry,
                   kernel_calls>>

\* tokamak: the reactor compound, when extra_intersect_shapes is given
TokBuildCompound ==
    /\ pc = "compound"
    /\ ~Spherical(args.entry_point)
    /\ IF inner_radial_build = <<>>
       THEN /\ Fail(Raise("IndexError", <<>>))
            /\ UNCHANGED <<reactor_compound, kernel_calls>>
       ELSE /\ reactor_compound' = UnionOrder
            /\ kernel_calls' = kernel_calls \o UnionCalls
            /\ pc' = "intersect"
            /\ UNCHANGED err
    /\ UNCHANGED <<args, vertical_build, geom, inner_radial_build, blanket_layers,
                   parts, attrs, intersect_shapes_to_cut, ci, k, li, entry>>

\* tokamak: the head of one pass of the extra_intersect_shapes loop
TokIntersect ==
    /\ pc = "intersect"
    /\ ~Spherical(args.entry_point)
    /\ k < Len(args.extra_intersect_shapes)
    /\ kernel_calls' = Append(kernel_calls,
                              Call("intersect", <<"extra_intersect_shape", k + 1>>,
                                   <<"reactor_compound">>))
    /\ intersect_shapes_to_cut' = Append(intersect_shapes_to_cut, <<"intersection", k + 1>>)
    /\ parts' = Append(parts, Part(<<"extra_intersect_shapes", k + 1>>,
                                   Solid(<<"intersection", k + 1>>, <<>>, 0)))
    /\ pc' = "cut_layers"
    /\ UNCHANGED <<args, vertical_build, err, geom, inner_radial_build, blanket_layers,
                   attrs, reactor_compound, ci, k, li, entry>>

\* every cut call of `for i, entry in enumerate(...)`, layer by layer
RECURSIVE AllCutCalls(_, _, _)
AllCutCalls(j, n, cutters) ==
    IF j > n THEN <<>> ELSE CutCalls(j, cutters) \o AllCutCalls(j + 1, n, cutters)

\* tokamak: inside that pass, the loop that cuts every layer by the cutters
\* collected so far; it leaves i and entry at the last layer
TokCutLayers ==
    /\ pc = "cut_layers"
    /\ ~Spherical(args.entry_point)
    /\ kernel_calls' = kernel_calls \o AllCutCalls(1, Len(Layers), combined_cutters)
    /\ li' = Len(Layers)
    /\ entry' = Solid(<<"layer", Len(Layers)>>, combined_cutters, 0)
    /\ pc' = "register"
    /\ UNCHANGED <<args, vertical_build, err, geom, inner_radial_build, blanket_layers,
                   parts, attrs, intersect_shapes_to_cut, reactor_compound, ci, k>>

\* tokamak: after that loop, still inside the pass, register the solids of
\* entry under the index i the loop ended with
TokRegister ==
    /\ pc = "register"
    /\ ~Spherical(args.entry_point)
    /\ \E n \in 0..MaxParts :
           parts' = parts \o LayerParts(li, entry.cuts, n)
    /\ k' = k + 1
    /\ pc' = IF k + 1 = Len(args.extra_intersect_shapes) THEN "return" ELSE "intersect"
    /\ UNCHANGED <<args, vertical_build, err, geom, inner_radial_build, blanket_layers,
                   attrs, intersect_shapes_to_cut, reactor_compound, ci, li, entry,
                   kernel_calls>>

\* tokamak: store the parameters, return
TokReturn ==
    /\ pc = "return"
    /\ ~Spherical(args.entry_point)
    /\ attrs' = Attached
    /\ pc' = "done"
    /\ UNCHANGED <<args, vertical_build, err, geom, inner_radial_build, blanket_layers,
                   parts, intersect_shapes_to_cut, reactor_compound, ci, k, li, entry,
                   kernel_calls>>

Next ==
    \/ FromPlasma
    \/ SphBuild
    \/ TokBuild
    \/ RegisterCutShape
    \/ SphBuildCompound
    \/ SphIntersect
    \/ SphCutLayer
    \/ SphPlainLayer
    \/ SphReturn
    \/ TokBuildCompound
    \/ TokIntersect
    \/ TokCutLayers
    \/ TokRegister
    \/ TokReturn

Spec == Init /\ [][Next]_vars

\* ------------------------------------------------------------ vocabulary
Returned == pc = "done"
Raised == pc = "error"

HasPart(name) == \E j \in 1..Len(parts) : parts[j].name = name

\* the parts made from the layer at position i, in registration order
RECURSIVE PartsOfLayer(_, _)
PartsOfLayer(ps, i) ==
    IF ps = <<>> THEN <<>>
    ELSE IF Head(ps).solid.base = <<"layer", i>>
         THEN <<Head(ps)>> \o PartsOfLayer(Tail(ps), i)
         ELSE PartsOfLayer(Tail(ps), i)

\* the cutters of the cut calls issued on the layer at position i, in issue order
RECURSIVE CuttersAppliedTo(_, _)
CuttersAppliedTo(calls, i) ==
    IF calls = <<>> THEN <<>>
    ELSE IF Head(calls).op = "cut" /\ Head(calls).on = <<"layer", i>>
         THEN <<Head(calls).with>> \o CuttersAppliedTo(Tail(calls), i)
         ELSE CuttersAppliedTo(Tail(calls), i)

\* the cutter list of the call: the extra-cut shapes in caller order, then
\* the intersections in extra_intersect_shapes order
FullCutterList ==
    [j \in 1..Len(args.extra_cut_shapes) |-> <<"extra_cut_shape", j>>]
    \o [j \in 1..Len(args.extra_intersect_shapes) |-> <<"intersection", j>>]

\* -------------------------------------------------------------------- C1
\* C1: whichever constructor returns, and whatever extra shapes it was given,
\* the last part of the assembly is named plasma and its solid is the plasma
\* with no cutter subtracted.
C1_PlasmaLastAndUncut ==
    Returned =>
        /\ Len(parts) > 0
        /\ parts[Len(parts)].name = <<"plasma">>
        /\ parts[Len(parts)].solid = Solid(<<"plasma">>, <<>>, 0)

\* -------------------------------------------------------------------- C2
\* C2: when a constructor returns, every layer i of the ordered layer list is
\* in the assembly, as layer_<i> or as layer_<i>_part_<j>; with no cutters it
\* is there as the undecomposed layer_<i>.
C2_EveryLayerRegistered ==
    Returned =>
        \A i \in 1..Len(Layers) :
            /\ PartsOfLayer(parts, i) # <<>>
            /\ FullCutterList = <<>> =>
                   PartsOfLayer(parts, i)
                       = <<Part(<<"layer", i>>, Solid(<<"layer", i>>, <<>>, 0))>>

\* -------------------------------------------------------------------- C3
\* C3: when a constructor returns and there are cutters, the parts of every
\* layer i are either layer_<i>_part_1 .. layer_<i>_part_<n> in that order
\* (n > 1 solids) or the single part layer_<i>, each cut by the full cutter
\* list.
C3_SplitNaming ==
    (Returned /\ FullCutterList # <<>>) =>
        \A i \in 1..Len(Layers) :
            \E n \in 0..MaxParts :
                PartsOfLayer(parts, i) = LayerParts(i, FullCutterList, n)

\* -------------------------------------------------------------------- C4
\* C4: when an extra_cut_shapes entry is rejected, the error names the index
\* and the type of the entry, no part has been registered and no kernel call
\* has been made.
C4_RejectsBeforeAnyWork ==
    (Raised /\ err.at = "cut_shapes") =>
        /\ \E j \in 1..Len(args.extra_cut_shapes) :
               /\ args.extra_cut_shapes[j] # "Workplane"
               /\ \E x \in 1..Len(err.about) :
                      err.about[x][1] = "index" /\ err.about[x][2] \in {j - 1, j}
               /\ \E x \in 1..Len(err.about) :
                      err.about[x] = <<"type", args.extra_cut_shapes[j]>>
        /\ parts = <<>>
        /\ kernel_calls = <<>>

\* -------------------------------------------------------------------- C5
\* C5: at every point of a run no two registered parts share a name.
C5_UniquePartNames ==
    \A a, b \in 1..Len(parts) : a # b => parts[a].name # parts[b].name

\* -------------------------------------------------------------------- C6
\* C6: when a constructor returns, the cut calls issued on each layer are
\* exactly one per cutter of the full cutter list, in list order.
C6_CutsInListOrder ==
    Returned =>
        \A i \in 1..Len(Layers) : CuttersAppliedTo(kernel_calls, i) = FullCutterList

\* -------------------------------------------------------------------- C7
\* C7: a call given extra-intersect shapes whose layer list is not empty does
\* not stop at the compound; its compound unions the whole layer list in list
\* order from the first layer, and every intersect shape k is registered as
\* extra_intersect_shapes_<k> and is in the cutter list.
C7_CompoundOfAllLayers ==
    (/\ Len(args.extra_intersect_shapes) > 0
     /\ Len(Layers) > 0
     /\ pc \notin {"from_plasma", "build", "cut_shapes", "compound"}
     /\ ~(Raised /\ err.at \in {"build", "cut_shapes"})) =>
        /\ ~(Raised /\ err.at = "compound")
        /\ reactor_compound = [j \in 1..Len(Layers) |-> j]
        /\ \A j \in 1..k :
               /\ HasPart(<<"extra_intersect_shapes", j>>)
               /\ intersect_shapes_to_cut[j] = <<"intersection", j>>
        /\ Returned => k = Len(args.extra_intersect_shapes)

\* ------------------------------------------------- the claims' own sums
\* the 1-based position of the PLASMA entry
PlasmaPos(build) == CHOOSE j \in 1..Len(build) : build[j][1] = PLASMA

\* the thickness of the first n entries, gaps and solids alike
RECURSIVE ThicknessOfFirst(_, _)
ThicknessOfFirst(build, n) ==
    IF n = 0 THEN Q(0) ELSE QAdd(ThicknessOfFirst(build, n - 1), build[n][2])

QLe(x, y) == x[1] * y[2] <= y[1] * x[2]

\* the positions of the SOLID entries before the plasma, in build order
SolidsBeforePlasma(build) ==
    LET S == {j \in 1..(PlasmaPos(build) - 1) : build[j][1] = SOLID}
    IN  [c \in 1..Cardinality(S) |->
            CHOOSE j \in S : Cardinality({x \in S : x < j}) = c - 1]

\* the constructor has computed its geometry and built its layers
Built == pc \notin {"from_plasma", "build"} /\ ~(Raised /\ err.at = "build")

C9_SphericalCylinders ==
    (Built /\ Spherical(args.entry_point)) =>
        LET rb == args.radial_build
            solids == SolidsBeforePlasma(rb)
            cyl == inner_radial_build
        IN  /\ Len(cyl) = Len(solids)
            /\ \A c \in 1..Len(cyl) :
                   /\ cyl[c].kind = "cylinder"
                   /\ cyl[c].name = <<"layer", c>>
                   /\ cyl[c].inner_radius = ThicknessOfFirst(rb, solids[c] - 1)
                   /\ cyl[c].thickness = <<rb[solids[c]][2]>>
            /\ \A c \in 1..(Len(cyl) - 1) :
                   QLe(QAdd(cyl[c].inner_radius, cyl[c].thickness[1]),
                       cyl[c + 1].inner_radius)
            /\ rb = ExampleRadialBuild =>
                   /\ Len(cyl) = 2
                   /\ cyl[1].inner_radius = Q(10)
                   /\ QAdd(cyl[1].inner_radius, cyl[1].thickness[1]) = Q(60)
                   /\ cyl[2].inner_radius = Q(60)
                   /\ QAdd(cyl[2].inner_radius, cyl[2].thickness[1]) = Q(75)

C9_Witness ==
    /\ Returned
    /\ Spherical(args.entry_point)
    /\ args.radial_build = ExampleRadialBuild
    /\ Len(inner_radial_build) = 2
    /\ inner_radial_build[2].inner_radius = Q(60)

SolidCount(build, S) == Cardinality({j \in S : build[j][1] = SOLID})

\* N: the SOLID entries before the plasma minus the SOLID entries after it
InboardOnlyCount(build) ==
    SolidCount(build, 1..(PlasmaPos(build) - 1))
        - SolidCount(build, (PlasmaPos(build) + 1)..Len(build))

Max(a, b) == IF a >= b THEN a ELSE b

\* the conventional tokamak has run create_center_column_shield_cylinders
TokCylindersBuilt ==
    /\ ~Spherical(args.entry_point)
    /\ pc \notin {"from_plasma", "build"}
    /\ ~(Raised /\ err.type = "ZeroDivisionError")

\* C11: the conventional center column has exactly max(N, 0) cylinders; they
\* are made from the first N SOLID entries of the radial build, in order, and
\* named layer_1, layer_2, ...; each one's inner radius is the thickness of
\* all entries (GAP and SOLID) before its entry and its thickness that of its
\* entry.
C11_TokamakCylinders ==
    TokCylindersBuilt =>
        LET rb == args.radial_build
            solids == SolidsBeforePlasma(rb)
            cyl == inner_radial_build
        IN  /\ Len(cyl) = Max(InboardOnlyCount(rb), 0)
            /\ Len(cyl) <= Len(solids)
            /\ \A c \in 1..Len(cyl) :
                   /\ cyl[c].kind = "cylinder"
                   /\ cyl[c].name = <<"layer", c>>
                   /\ cyl[c].entry = solids[c] - 1
                   /\ cyl[c].inner_radius = ThicknessOfFirst(rb, solids[c] - 1)
                   /\ cyl[c].thickness = <<rb[solids[c]][2]>>

\* a returned tokamak whose center column stops short of the SOLID entries
\* before the plasma
C11_Witness ==
    /\ Returned
    /\ ~Spherical(args.entry_point)
    /\ InboardOnlyCount(args.radial_build) = 1
    /\ Len(inner_radial_build) = 1
    /\ Len(SolidsBeforePlasma(args.radial_build)) = 2

\* ------------------------------------------------------------------- C12
\* the entries at distance d on both sides of the plasma have the same
\* LayerType, for every d up to the number of entries after the plasma, which
\* is at most the number of entries before it
TypeSymmetric(build) ==
    LET p == PlasmaPos(build)
        m == Len(build) - p
    IN  /\ m <= p - 1
        /\ \A d \in 1..m : build[p - d][1] = build[p + d][1]

\* how many cylinders and how many inner shells are made from the entry at
\* position j (1-based) of the radial build
CylindersOf(cylinders, j) ==
    Cardinality({c \in 1..Len(cylinders) : cylinders[c].entry = j - 1})

InnerShellsOf(layers, j) ==
    Cardinality({c \in 1..Len(layers) : layers[c].inner.entry = j - 1})

\* C12: for a radial build whose inboard and outboard entries have the same
\* LayerType at every distance from the plasma, every SOLID entry before the
\* plasma is made into exactly one solid, a center-column cylinder or the
\* inner shell of a lofted layer: by the two builders applied to the build,
\* and in the lists a conventional constructor holds once it has built them.
C12_RepresentedOnce ==
    LET rb == args.radial_build
        cylinders == TokCylinders(rb, SumThickness(vertical_build))
        built == TokLayers(rb, vertical_build)
    IN  (/\ ~Spherical(args.entry_point)
         /\ pc # "from_plasma"
         /\ TypeSymmetric(rb)
         /\ built.err = "none") =>
            /\ \A j \in 1..(PlasmaPos(rb) - 1) :
                   rb[j][1] = SOLID =>
                       CylindersOf(cylinders, j) + InnerShellsOf(built.layers, j) = 1
            /\ Built =>
                   /\ inner_radial_build = cylinders
                   /\ blanket_layers = built.layers

\* a returned tokamak that holds a cylinder and a lofted layer whose inner
\* shell is made from a SOLID entry before the plasma
C12_Witness ==
    /\ Returned
    /\ ~Spherical(args.entry_point)
    /\ TypeSymmetric(args.radial_build)
    /\ Len(inner_radial_build) > 0
    /\ Len(blanket_layers) > 0
    /\ CylindersOf(inner_radial_build, 1) = 1
    /\ InnerShellsOf(blanket_layers, PlasmaPos(args.radial_build) - 1) = 1

\* ------------------------------------------------------------------- C13
\* C13: the vertical build spherical_tokamak_from_plasma synthesizes from a
\* radial build with m entries after the plasma has 2m+1 entries, its only
\* PLASMA entry in the middle, and at distance d below and above the plasma
\* the radial entry at distance d after the plasma, type and thickness.
C13_SphericalVerticalMirror ==
    (args.entry_point = "spherical_tokamak_from_plasma" /\ pc # "from_plasma") =>
        LET rb == args.radial_build
            p == PlasmaPos(rb)
            m == Len(rb) - p
        IN  /\ Len(vertical_build) = 2 * m + 1
            /\ OnePlasma(vertical_build)
            /\ vertical_build[m + 1][1] = PLASMA
            /\ \A d \in 1..m :
                   /\ vertical_build[m + 1 - d] = rb[p + d]
                   /\ vertical_build[m + 1 + d] = rb[p + d]

\* a returned spherical tokamak made from a radial build whose two entries
\* after the plasma differ
C13_Witness ==
    /\ Returned
    /\ args.entry_point = "spherical_tokamak_from_plasma"
    /\ Len(args.radial_build) - PlasmaPos(args.radial_build) >= 2
    /\ args.radial_build[PlasmaPos(args.radial_build) + 1]
           # args.radial_build[PlasmaPos(args.radial_build) + 2]
    /\ Len(vertical_build) >= 5

\* ------------------------------------------------------------------- C14
\* C14: the vertical build tokamak_from_plasma synthesizes from a radial build
\* with m entries after the plasma, however many entries come before it, has
\* 2m+1 entries, its only PLASMA entry in the middle, and at distance d on
\* both sides of the plasma the radial entry at distance d before the plasma.
C14_TokamakVerticalMirror ==
    (args.entry_point = "tokamak_from_plasma" /\ pc # "from_plasma") =>
        LET rb == args.radial_build
            p == PlasmaPos(rb)
            m == Len(rb) - p
        IN  /\ Len(vertical_build) = 2 * m + 1
            /\ OnePlasma(vertical_build)
            /\ vertical_build[m + 1][1] = PLASMA
            /\ \A d \in 1..m :
                   /\ p - d >= 1
                   /\ vertical_build[m + 1 - d] = rb[p - d]
                   /\ vertical_build[m + 1 + d] = rb[p - d]

\* ------------------------------------------------------------------- C15
\* the entry at distance d from position p of a build, towards the start
\* (side = -1) or the end (side = 1), exists
OnSide(build, p, side, d) == p + side * d >= 1 /\ p + side * d <= Len(build)

\* the thickness of the entries at distances 1..d from position p on that side
RECURSIVE SideSum(_, _, _, _)
SideSum(build, p, side, d) ==
    IF d = 0 THEN Q(0)
    ELSE QAdd(SideSum(build, p, side, d - 1), build[p + side * d][2])

\* a shell built at distance d takes, in each of its three directions, the
\* thickness of the entry at distance d on the side given for that direction
\* and, as offset, the thickness of all entries nearer to the plasma on that
\* side; a direction is <<build, position of its plasma, side>>
ShellFollows(shell, d, directions) ==
    /\ d >= 1
    /\ \A x \in 1..3 :
           LET build == directions[x][1]
               p == directions[x][2]
               side == directions[x][3]
           IN  /\ OnSide(build, p, side, d)
               /\ shell.thickness[x] = build[p + side * d][2]
               /\ shell.offset_from_plasma[x] = SideSum(build, p, side, d - 1)

\* no offset of shell b is smaller than that of shell a
OffsetsGrow(a, b) ==
    \A x \in 1..3 : QLe(a.offset_from_plasma[x], b.offset_from_plasma[x])

\* C15: every lofted shell a constructor has built for the entry at distance
\* d from the plasma has, in each direction, the thickness of the entry at
\* distance d on that direction's side of its build and as offset the
\* thickness of all entries (GAP and SOLID) at distances 1..d-1 on that side;
\* from one shell to the next no offset decreases.  The spherical shell's
\* directions are lower, radial, upper; the conventional outer shell's are
\* upper, outer, lower and its inner shell's lower, inner, upper.
C15_OffsetsArePrefixSums ==
    Built =>
        LET rb == args.radial_build
            vb == vertical_build
            p == PlasmaPos(rb)
            pv == PlasmaPos(vb)
            before == <<vb, pv, -1>>
            after == <<vb, pv, 1>>
            outboard == <<rb, p, 1>>
            inboard == <<rb, p, -1>>
        IN  IF Spherical(args.entry_point)
            THEN /\ \A c \in 1..Len(blanket_layers) :
                        ShellFollows(blanket_layers[c],
                                     blanket_layers[c].entry + 1 - p,
                                     <<before, outboard, after>>)
                 /\ \A c \in 1..(Len(blanket_layers) - 1) :
                        OffsetsGrow(blanket_layers[c], blanket_layers[c + 1])
            ELSE /\ \A c \in 1..Len(blanket_layers) :
                        LET d == blanket_layers[c].outer.entry + 1 - p
                        IN  /\ ShellFollows(blanket_layers[c].outer, d,
                                            <<before, outboard, after>>)
                            /\ ShellFollows(blanket_layers[c].inner, d,
                                            <<after, inboard, before>>)
                 /\ \A c \in 1..(Len(blanket_layers) - 1) :
                        /\ OffsetsGrow(blanket_layers[c].outer,
                                       blanket_layers[c + 1].outer)
                        /\ OffsetsGrow(blanket_layers[c].inner,
                                       blanket_layers[c + 1].inner)

\* ------------------------------------------------------------------- C16
\* the two builds of the call are paired: the vertical build has one PLASMA
\* entry and, on each side of it, as many entries as the radial build has
\* after its plasma; for a conventional tokamak the radial build has at least
\* as many before its plasma
PairedBuilds ==
    LET rb == args.radial_build
        m == Len(rb) - PlasmaPos(rb)
    IN  /\ pc # "from_plasma"
        /\ OnePlasma(rb)
        /\ OnePlasma(vertical_build)
        /\ Len(vertical_build) = 2 * m + 1
        /\ PlasmaPos(vertical_build) = m + 1
        /\ ~Spherical(args.entry_point) => m <= PlasmaPos(rb) - 1

\* the types of the entries a shell built at distance d takes its three
\* thicknesses from, radial_entry being the (0-based) radial index it read
SourceTypes(radial_entry, d) ==
    {PyAt(args.radial_build, radial_entry)[1],
     PyAt(vertical_build, get_plasma_index(vertical_build) - d)[1],
     PyAt(vertical_build, get_plasma_index(vertical_build) + d)[1]}

\* C16: for paired builds, no lofted shell a constructor has built takes a
\* thickness, in any direction, from a GAP entry of the radial build (inboard
\* or outboard) or of the vertical build.
C16_NoShellFromGap ==
    (Built /\ PairedBuilds) =>
        LET pr == get_plasma_index(args.radial_build)
        IN  \A c \in 1..Len(blanket_layers) :
                IF Spherical(args.entry_point)
                THEN GAP \notin SourceTypes(blanket_layers[c].entry,
                                            blanket_layers[c].entry - pr)
                ELSE /\ GAP \notin SourceTypes(blanket_layers[c].outer.entry,
                                                blanket_layers[c].outer.entry - pr)
                     /\ GAP \notin SourceTypes(blanket_layers[c].inner.entry,
                                                blanket_layers[c].outer.entry - pr)

\* ------------------------------------------------------------------- C17
\* C17: a conventional constructor called with paired builds whose radial
\* build has no more SOLID entries before the plasma than after it (N <= 0)
\* raises no error.
C17_ReturnsWithoutCylinders ==
    (/\ ~Spherical(args.entry_point)
     /\ PairedBuilds
     /\ InboardOnlyCount(args.radial_build) <= 0) => ~Raised

====
